---- MODULE Spec2Model ----
(***************************************************************************)
(* Model of the Taskfile graph demo (src/main.go): main loads a Taskfile   *)
(* inclusion graph through the go-task reader, merges it, prints the       *)
(* inclusion order, the flat task listing and the recursive dependency     *)
(* tree of the start task.                                                 *)
(***************************************************************************)
EXTENDS Integers, Sequences, FiniteSets, TLC

VARIABLES
    pc,              \* position of main / showDependencyTree
    fatal,           \* which panic ended the run ("" while running)
    out,             \* standard output: the sequence of printed lines
    taskfileGraph,   \* result of reader.Read (main.go:61)
    mergedTaskfile,  \* result of taskfileGraph.Merge (main.go:67)
    startTask,       \* the -start flag (main.go:20)
    hashes,          \* result of graph.TopologicalSort (main.go:79)
    i,               \* index of the loop over hashes (main.go:84)
    taskIdx,         \* position of the loop over Tasks.All (main.go:105)
    stack,           \* call stack of showDependencyTree (main.go:172)
    pass,            \* which run of the flat listing is in progress
    firstOut         \* output of the first run of the flat listing

vars == <<pc, fatal, out, taskfileGraph, mergedTaskfile, startTask, hashes,
          i, taskIdx, stack, pass, firstOut>>

-----------------------------------------------------------------------------
(* Bounds of the explored inputs *)

\* total number of dependencies, command entries and descriptions of a document
MaxItems == 2
\* number of includes one Taskfile declares
MaxIncludes == 2

TaskNames == {"A", "B", "C"}
Locations == {"root", "inc1", "inc2"}
Descs == {"", "d"}
NoGraph == [V |-> {}, Includes |-> <<>>]

\* frames the goroutine stack holds before the runtime aborts the program;
\* deeper than any acyclic chain over TaskNames
MaxStack == Cardinality(TaskNames) + 1

-----------------------------------------------------------------------------
(* Data: ast.Cmd, ast.Task, ast.Tasks (an ordered map), ast.TaskfileGraph *)

\* an ast.Cmd as the reader yields it: a literal command, a task call, or a
\* scalar entry whose text is empty (cmds: [""]), which has neither
CmdEntries ==
    {[Cmd |-> "echo hi", Task |-> ""], [Cmd |-> "", Task |-> ""]}
        \cup {[Cmd |-> "", Task |-> n] : n \in TaskNames}

SeqsUpTo(S, n) == UNION {[1..k -> S] : k \in 0..n}

IsInjective(s) == \A a, b \in DOMAIN s : s[a] = s[b] => a = b

DistinctSeqs(S, n) == {s \in SeqsUpTo(S, n) : IsInjective(s)}

\* task bodies holding exactly k items
TaskBodies(k) ==
    UNION {
        UNION {
            {[Desc |-> d, Deps |-> ds, Cmds |-> cs] :
                ds \in [1..nd -> TaskNames],
                cs \in [1..(k - nd - (IF d = "" THEN 0 ELSE 1)) -> CmdEntries]}
            : nd \in 0..(k - (IF d = "" THEN 0 ELSE 1))}
        : d \in {x \in Descs : x = "" \/ k >= 1}}

\* BodySeqs[n, b]: the sequences of n task bodies holding at most b items together
BodySeqs[n \in 0..Cardinality(TaskNames), b \in 0..(MaxItems + 1)] ==
    IF n = 0 THEN {<<>>}
    ELSE UNION {
            {<<body>> \o rest : body \in TaskBodies(k), rest \in BodySeqs[n - 1, b - k]}
            : k \in 0..b}

\* the ordered map with keys ks, in that order, and the bodies bs
Named(ks, bs) ==
    [k \in DOMAIN ks |->
        [Name |-> ks[k], Desc |-> bs[k].Desc, Deps |-> bs[k].Deps, Cmds |-> bs[k].Cmds]]

DocsWithKeys(ks, budget) == {Named(ks, bs) : bs \in BodySeqs[Len(ks), budget]}

KeySeqs == DistinctSeqs(TaskNames, Cardinality(TaskNames))

\* the key orders A, B, C with some keys left out
SortedKeySeqs ==
    {ks \in KeySeqs : \A a, b \in DOMAIN ks :
        a < b => (ks[a] = "A" \/ ks[b] = "C") /\ ks[a] # ks[b]}

\* documents of MaxItems items are explored in one key order, smaller ones in
\* every key order
AllDocs ==
    UNION {DocsWithKeys(ks, MaxItems) : ks \in SortedKeySeqs}
        \cup UNION {DocsWithKeys(ks, MaxItems - 1) : ks \in KeySeqs}

SmallDocs == UNION {DocsWithKeys(ks, 0) : ks \in {s \in KeySeqs : Len(s) <= 1}}

AllGraphs ==
    UNION {
        {[V |-> V, Includes |-> inc] : inc \in [V -> DistinctSeqs(V, MaxIncludes)]}
        : V \in {W \in SUBSET Locations : "root" \in W}}

RootOnly == [V |-> {"root"}, Includes |-> [v \in {"root"} |-> <<>>]]

\* a root Taskfile that includes one other file
TwoFiles ==
    [V |-> {"root", "inc1"},
     Includes |-> [v \in {"root", "inc1"} |-> IF v = "root" THEN <<"inc1">> ELSE <<>>]]

\* what reader.Read may hand back: the number of lines its debug callback
\* printed, and the graph
ReadResults ==
    {[diag |-> 0, graph |-> g] : g \in AllGraphs}
        \cup {[diag |-> 1, graph |-> TwoFiles]}

\* what Merge may hand back for a graph: rich documents are explored for the
\* single-file graph, multi-file graphs with the small documents
MergeResults(r) ==
    IF r = RootOnly THEN AllDocs ELSE SmallDocs

-----------------------------------------------------------------------------
(* Library operations used by main *)

\* Tasks.Get: the task stored under a name, if any
Exists(tf, name) == \E k \in DOMAIN tf : tf[k].Name = name

Get(tf, name) == tf[CHOOSE k \in DOMAIN tf : tf[k].Name = name]

Pos(s, x) == CHOOSE k \in DOMAIN s : s[k] = x

Perms(S) == {s \in [1..Cardinality(S) -> S] : IsInjective(s)}

\* graph.TopologicalSort: the orders in which every edge's source precedes its
\* target; none exists when the graph has a cycle, and the call returns an error
TopologicalSort(g) ==
    {p \in Perms(g.V) :
        \A u \in g.V : \A k \in DOMAIN g.Includes[u] :
            Pos(p, u) < Pos(p, g.Includes[u][k])}

-----------------------------------------------------------------------------
(* Printed lines *)

Line(sec, kind, num, indent, text, desc) ==
    [sec |-> sec, kind |-> kind, num |-> num, indent |-> indent, text |-> text, desc |-> desc]

\* mutant: one space per level
IndentOneSpace(depth) == depth

\* main.go:173-176: two spaces per level
Indent(depth) == 2 * depth

Blank(sec) == Line(sec, "blank", 0, 0, "", "")

\* main.go:49-51: the lines the reader's debug callback printed during Read
DiagLines(n) == [k \in 1..n |-> Line("diag", "debug", 0, 0, "", "")]

\* main.go:72-78
HeaderLines(tf) ==
    <<Line("hdr", "title", 0, 0, "Taskfile Graph Analysis", ""),
      Line("hdr", "location", 0, 0, "", ""),
      Line("hdr", "version", 0, 0, "", ""),
      Blank("hdr"),
      Line("hdr", "title", 0, 0, "Taskfile Inclusion Graph", "")>>

\* mutant: the vertex is numbered by the 0-based loop index
VertexLinesZeroBased(g, idx, hash) ==
    <<Line("incl", "vertex", idx, 0, hash, "")>>
        \o (IF Len(g.Includes[hash]) > 0
            THEN <<Line("incl", "includes", 0, 3, "", "")>>
                    \o [k \in DOMAIN g.Includes[hash] |->
                            Line("incl", "include", 0, 5, g.Includes[hash][k], "")]
            ELSE <<>>)

\* main.go:89-97: one numbered line for the vertex, then its includes
VertexLines(g, idx, hash) ==
    <<Line("incl", "vertex", idx + 1, 0, hash, "")>>
        \o (IF Len(g.Includes[hash]) > 0
            THEN <<Line("incl", "includes", 0, 3, "", "")>>
                    \o [k \in DOMAIN g.Includes[hash] |->
                            Line("incl", "include", 0, 5, g.Includes[hash][k], "")]
            ELSE <<>>)

\* main.go:122-127: the lines printed for one command entry
CmdLines(cmd) ==
    (IF cmd.Cmd # "" THEN <<Line("flat", "cmd", 0, 4, cmd.Cmd, "")>> ELSE <<>>)
        \o (IF cmd.Task # "" THEN <<Line("flat", "taskcall", 0, 4, cmd.Task, "")>> ELSE <<>>)

RECURSIVE Flatten(_)
Flatten(ss) == IF ss = <<>> THEN <<>> ELSE Head(ss) \o Flatten(Tail(ss))

\* main.go:106-130: the lines printed for one task of the flat listing
TaskLines(task) ==
    <<Line("flat", "task", 0, 0, task.Name, task.Desc)>>
        \o (IF Len(task.Deps) > 0
            THEN <<Line("flat", "depsTitle", 0, 2, "", "")>>
                    \o [k \in DOMAIN task.Deps |-> Line("flat", "dep", 0, 4, task.Deps[k], "")]
            ELSE <<>>)
        \o (IF Len(task.Cmds) > 0
            THEN <<Line("flat", "cmdsTitle", 0, 2, "", "")>>
                    \o Flatten([k \in DOMAIN task.Cmds |-> CmdLines(task.Cmds[k])])
            ELSE <<>>)
        \o <<Blank("flat")>>

\* main.go:147-169: every task's explicit dependencies, then the task calls of
\* its commands
buildTaskDependencyGraph(tf) ==
    [name \in {tf[k].Name : k \in DOMAIN tf} |->
        Get(tf, name).Deps
            \o Flatten([k \in DOMAIN Get(tf, name).Cmds |->
                    IF Get(tf, name).Cmds[k].Task # ""
                    THEN <<Get(tf, name).Cmds[k].Task>> ELSE <<>>])]

\* main.go:180 and main.go:184-188: the line showDependencyTree prints
NotFoundLine(taskName, depth) ==
    Line("tree", "notfound", 0, Indent(depth), taskName, "")

TreeLine(task, depth) ==
    Line("tree", "task", 0, Indent(depth), task.Name, task.Desc)

Frame(taskName, depth) ==
    [taskName |-> taskName, depth |-> depth, stage |-> "enter", idx |-> 0]

Top == stack[Len(stack)]

Pop == SubSeq(stack, 1, Len(stack) - 1)

SetTop(f) == [stack EXCEPT ![Len(stack)] = f]

-----------------------------------------------------------------------------
(* main *)

Init ==
    /\ pc = "read"
    /\ fatal = ""
    /\ out = <<>>
    /\ taskfileGraph = NoGraph
    /\ mergedTaskfile = <<>>
    /\ startTask = "A"
    /\ hashes = <<>>
    /\ i = 0
    /\ taskIdx = 0
    /\ stack = <<>>
    /\ pass = 1
    /\ firstOut = <<>>

\* main.go:61: reader.Read succeeds
Read ==
    /\ pc = "read"
    /\ \E r \in ReadResults :
        /\ out' = out \o DiagLines(r.diag)
        /\ taskfileGraph' = r.graph
    /\ pc' = "merge"
    /\ UNCHANGED <<fatal, mergedTaskfile, startTask, hashes, i, taskIdx, stack, pass, firstOut>>

\* main.go:62-64: reader.Read fails
ReadFail ==
    /\ pc = "read"
    /\ \E n \in 0..1 : out' = out \o DiagLines(n)
    /\ pc' = "panic"
    /\ fatal' = "read"
    /\ UNCHANGED <<taskfileGraph, mergedTaskfile, startTask, hashes, i, taskIdx, stack, pass, firstOut>>

\* main.go:67: Merge succeeds
Merge ==
    /\ pc = "merge"
    /\ \E tf \in MergeResults(taskfileGraph) : mergedTaskfile' = tf
    /\ pc' = "sort"
    /\ UNCHANGED <<fatal, out, taskfileGraph, startTask, hashes, i, taskIdx, stack, pass, firstOut>>

\* main.go:68-70: Merge fails
MergeFail ==
    /\ pc = "merge"
    /\ pc' = "panic"
    /\ fatal' = "merge"
    /\ UNCHANGED <<out, taskfileGraph, mergedTaskfile, startTask, hashes, i, taskIdx, stack, pass, firstOut>>

\* main.go:72-79: the header is printed and the inclusion graph sorted
Sort ==
    /\ pc = "sort"
    /\ \E order \in TopologicalSort(taskfileGraph) : hashes' = order
    /\ out' = out \o HeaderLines(mergedTaskfile)
    /\ i' = 0
    /\ pc' = "vertices"
    /\ UNCHANGED <<fatal, taskfileGraph, mergedTaskfile, startTask, taskIdx, stack, pass, firstOut>>

\* mutant: the error of the sort is dropped and the run goes on
SortFailContinues ==
    /\ pc = "sort"
    /\ TopologicalSort(taskfileGraph) = {}
    /\ out' = out \o HeaderLines(mergedTaskfile)
    /\ pc' = "vertices"
    /\ fatal' = "sort"
    /\ UNCHANGED <<taskfileGraph, mergedTaskfile, startTask, hashes, i, taskIdx, stack, pass, firstOut>>

\* main.go:72-82: the header is printed and the sort fails
SortFail ==
    /\ pc = "sort"
    /\ TopologicalSort(taskfileGraph) = {}
    /\ out' = out \o HeaderLines(mergedTaskfile)
    /\ pc' = "panic"
    /\ fatal' = "sort"
    /\ UNCHANGED <<taskfileGraph, mergedTaskfile, startTask, hashes, i, taskIdx, stack, pass, firstOut>>

\* main.go:84-98: one iteration of the loop over hashes
PrintVertex ==
    /\ pc = "vertices"
    /\ i < Len(hashes)
    /\ out' = out \o (IF hashes[i + 1] \in taskfileGraph.V
                      THEN VertexLines(taskfileGraph, i, hashes[i + 1])
                      ELSE <<>>)
    /\ i' = i + 1
    /\ UNCHANGED <<pc, fatal, taskfileGraph, mergedTaskfile, startTask, hashes, taskIdx, stack, pass, firstOut>>

\* main.go:99-103: the loop is over; buildTaskDependencyGraph is called and its
\* result dropped
StartListing ==
    /\ pc = "vertices"
    /\ i = Len(hashes)
    /\ out' = out \o <<Blank("incl"), Line("flat", "title", 0, 0, "Task Dependencies", "")>>
    /\ buildTaskDependencyGraph(mergedTaskfile) = buildTaskDependencyGraph(mergedTaskfile)
    /\ taskIdx' = 0
    /\ pc' = "list"
    /\ UNCHANGED <<fatal, taskfileGraph, mergedTaskfile, startTask, hashes, i, stack, pass, firstOut>>

\* mutant: the listing empties the command list of the task it printed
ListTaskConsumes ==
    /\ pc = "list"
    /\ taskIdx < Len(mergedTaskfile)
    /\ out' = out \o TaskLines(mergedTaskfile[taskIdx + 1])
    /\ mergedTaskfile' = [mergedTaskfile EXCEPT ![taskIdx + 1].Cmds = <<>>]
    /\ taskIdx' = taskIdx + 1
    /\ UNCHANGED <<pc, fatal, taskfileGraph, startTask, hashes, i, stack, pass, firstOut>>

\* main.go:105-131: one iteration of the loop over Tasks.All
ListTask ==
    /\ pc = "list"
    /\ taskIdx < Len(mergedTaskfile)
    /\ out' = out \o TaskLines(mergedTaskfile[taskIdx + 1])
    /\ taskIdx' = taskIdx + 1
    /\ UNCHANGED <<pc, fatal, taskfileGraph, mergedTaskfile, startTask, hashes, i, stack, pass, firstOut>>

TreeTitle == Line("hdr", "title", 0, 0, "Complete Dependency Tree", startTask)

\* mutant: the tree is rendered from inside the listing loop, after the first task
StartTreeEarly ==
    /\ pc = "list"
    /\ taskIdx >= 1 \/ taskIdx = Len(mergedTaskfile)
    /\ Exists(mergedTaskfile, startTask)
    /\ out' = out \o <<TreeTitle>>
    /\ stack' = <<Frame(startTask, 0)>>
    /\ pc' = "tree"
    /\ UNCHANGED <<fatal, taskfileGraph, mergedTaskfile, startTask, hashes, i, taskIdx, pass, firstOut>>

\* main.go:134-136: the start task exists, showDependencyTree(tf, start, 0) is called
StartTree ==
    /\ pc = "list"
    /\ taskIdx = Len(mergedTaskfile)
    /\ Exists(mergedTaskfile, startTask)
    /\ out' = out \o <<TreeTitle>>
    /\ stack' = <<Frame(startTask, 0)>>
    /\ pc' = "tree"
    /\ UNCHANGED <<fatal, taskfileGraph, mergedTaskfile, startTask, hashes, i, taskIdx, pass, firstOut>>

\* mutant: a missing start task is handed to showDependencyTree all the same
StartNotFoundRendersTree ==
    /\ pc = "list"
    /\ taskIdx = Len(mergedTaskfile)
    /\ ~Exists(mergedTaskfile, startTask)
    /\ out' = out \o <<TreeTitle>>
    /\ stack' = <<Frame(startTask, 0)>>
    /\ pc' = "tree"
    /\ UNCHANGED <<fatal, taskfileGraph, mergedTaskfile, startTask, hashes, i, taskIdx, pass, firstOut>>

\* main.go:137-143: the start task is missing, the task names are listed
StartNotFound ==
    /\ pc = "list"
    /\ taskIdx = Len(mergedTaskfile)
    /\ ~Exists(mergedTaskfile, startTask)
    /\ out' = out \o <<TreeTitle,
                       Line("avail", "startNotFound", 0, 0, startTask, ""),
                       Line("avail", "availTitle", 0, 0, "", "")>>
                  \o [k \in DOMAIN mergedTaskfile |->
                        Line("avail", "name", 0, 2, mergedTaskfile[k].Name, "")]
    /\ pc' = "done"
    /\ UNCHANGED <<fatal, taskfileGraph, mergedTaskfile, startTask, hashes, i, taskIdx, stack, pass, firstOut>>

-----------------------------------------------------------------------------
(* showDependencyTree: the top frame of stack is the running call *)

\* mutant: a missing task is a fatal error
TreeNotFoundPanics ==
    /\ pc = "tree"
    /\ Top.stage = "enter"
    /\ ~Exists(mergedTaskfile, Top.taskName)
    /\ out' = out \o <<NotFoundLine(Top.taskName, Top.depth)>>
    /\ pc' = "panic"
    /\ fatal' = "notfound"
    /\ UNCHANGED <<taskfileGraph, mergedTaskfile, startTask, hashes, i, taskIdx, stack, pass, firstOut>>

\* main.go:178-182: the task is missing: one line, and the call returns
TreeNotFound ==
    /\ pc = "tree"
    /\ Top.stage = "enter"
    /\ ~Exists(mergedTaskfile, Top.taskName)
    /\ out' = out \o <<NotFoundLine(Top.taskName, Top.depth)>>
    /\ stack' = Pop
    /\ pc' = IF Len(stack) = 1 THEN "done" ELSE "tree"
    /\ UNCHANGED <<fatal, taskfileGraph, mergedTaskfile, startTask, hashes, i, taskIdx, pass, firstOut>>

\* main.go:178-188: the task exists: its line is printed
TreeFound ==
    /\ pc = "tree"
    /\ Top.stage = "enter"
    /\ Exists(mergedTaskfile, Top.taskName)
    /\ out' = out \o <<TreeLine(Get(mergedTaskfile, Top.taskName), Top.depth)>>
    /\ stack' = SetTop([Top EXCEPT !.stage = "deps", !.idx = 0])
    /\ UNCHANGED <<pc, fatal, taskfileGraph, mergedTaskfile, startTask, hashes, i, taskIdx, pass, firstOut>>

\* mutant: a dependency that is already being rendered up the stack is skipped
TreeDepVisited ==
    /\ pc = "tree"
    /\ Top.stage = "deps"
    /\ Top.idx < Len(Get(mergedTaskfile, Top.taskName).Deps)
    /\ LET dep == Get(mergedTaskfile, Top.taskName).Deps[Top.idx + 1]
           next == SetTop([Top EXCEPT !.idx = Top.idx + 1])
       IN  IF \E k \in DOMAIN stack : stack[k].taskName = dep
           THEN stack' = next
           ELSE /\ Len(stack) < MaxStack
                /\ stack' = Append(next, Frame(dep, Top.depth + 1))
    /\ UNCHANGED <<pc, fatal, out, taskfileGraph, mergedTaskfile, startTask, hashes, i, taskIdx, pass, firstOut>>

\* mutant: a dependency whose line was printed before is skipped
TreeDepMemo ==
    /\ pc = "tree"
    /\ Top.stage = "deps"
    /\ Top.idx < Len(Get(mergedTaskfile, Top.taskName).Deps)
    /\ LET dep == Get(mergedTaskfile, Top.taskName).Deps[Top.idx + 1]
           next == SetTop([Top EXCEPT !.idx = Top.idx + 1])
       IN  IF \E k \in DOMAIN out : out[k].sec = "tree" /\ out[k].text = dep
           THEN stack' = next
           ELSE /\ Len(stack) < MaxStack
                /\ stack' = Append(next, Frame(dep, Top.depth + 1))
    /\ UNCHANGED <<pc, fatal, out, taskfileGraph, mergedTaskfile, startTask, hashes, i, taskIdx, pass, firstOut>>

\* main.go:191-193: the next dependency is rendered one level deeper
TreeDep ==
    /\ pc = "tree"
    /\ Top.stage = "deps"
    /\ Top.idx < Len(Get(mergedTaskfile, Top.taskName).Deps)
    /\ Len(stack) < MaxStack
    /\ stack' = Append(SetTop([Top EXCEPT !.idx = Top.idx + 1]),
                       Frame(Get(mergedTaskfile, Top.taskName).Deps[Top.idx + 1], Top.depth + 1))
    /\ UNCHANGED <<pc, fatal, out, taskfileGraph, mergedTaskfile, startTask, hashes, i, taskIdx, pass, firstOut>>

\* main.go:191-196: the dependencies are done, the commands follow
TreeDepsDone ==
    /\ pc = "tree"
    /\ Top.stage = "deps"
    /\ Top.idx = Len(Get(mergedTaskfile, Top.taskName).Deps)
    /\ stack' = SetTop([Top EXCEPT !.stage = "cmds", !.idx = 0])
    /\ UNCHANGED <<pc, fatal, out, taskfileGraph, mergedTaskfile, startTask, hashes, i, taskIdx, pass, firstOut>>

\* main.go:196-200: the next command entry; a task call is rendered one level deeper
TreeCmd ==
    /\ pc = "tree"
    /\ Top.stage = "cmds"
    /\ Top.idx < Len(Get(mergedTaskfile, Top.taskName).Cmds)
    /\ LET cmd == Get(mergedTaskfile, Top.taskName).Cmds[Top.idx + 1]
           next == SetTop([Top EXCEPT !.idx = Top.idx + 1])
       IN  IF cmd.Task # ""
           THEN /\ Len(stack) < MaxStack
                /\ stack' = Append(next, Frame(cmd.Task, Top.depth + 1))
           ELSE stack' = next
    /\ UNCHANGED <<pc, fatal, out, taskfileGraph, mergedTaskfile, startTask, hashes, i, taskIdx, pass, firstOut>>

\* main.go:201: both loops are over, the call returns
TreeReturn ==
    /\ pc = "tree"
    /\ Top.stage = "cmds"
    /\ Top.idx = Len(Get(mergedTaskfile, Top.taskName).Cmds)
    /\ stack' = Pop
    /\ pc' = IF Len(stack) = 1 THEN "done" ELSE "tree"
    /\ UNCHANGED <<fatal, out, taskfileGraph, mergedTaskfile, startTask, hashes, i, taskIdx, pass, firstOut>>

\* the task a pending recursive call of the top frame would render, if any
PendingCall ==
    IF Top.stage = "deps"
    THEN Top.idx < Len(Get(mergedTaskfile, Top.taskName).Deps)
    ELSE /\ Top.stage = "cmds"
         /\ Top.idx < Len(Get(mergedTaskfile, Top.taskName).Cmds)
         /\ Get(mergedTaskfile, Top.taskName).Cmds[Top.idx + 1].Task # ""

\* main.go:192, main.go:198: a call that the goroutine stack cannot hold aborts the program
StackOverflow ==
    /\ pc = "tree"
    /\ Len(stack) = MaxStack
    /\ PendingCall
    /\ pc' = "panic"
    /\ fatal' = "stack"
    /\ UNCHANGED <<out, taskfileGraph, mergedTaskfile, startTask, hashes, i, taskIdx, stack, pass, firstOut>>

Next ==
    \/ Read
    \/ ReadFail
    \/ Merge
    \/ MergeFail
    \/ Sort
    \/ SortFail
    \/ PrintVertex
    \/ StartListing
    \/ ListTask
    \/ StartTree
    \/ StartNotFound
    \/ TreeNotFound
    \/ TreeFound
    \/ TreeDep
    \/ TreeDepsDone
    \/ TreeCmd
    \/ TreeReturn
    \/ StackOverflow

Spec == Init /\ [][Next]_vars

\* the scheduler runs the single thread of main until it returns or panics
FairSpec == Spec /\ WF_vars(Next)

-----------------------------------------------------------------------------
(* Running the flat listing a second time on the same document *)

FlatTaskOut == SelectSeq(out, LAMBDA l : l.sec = "flat" /\ l.kind # "title")

\* the loop of main.go:105-131 is started again once it is over
Relist ==
    /\ pc = "list"
    /\ pass = 1
    /\ taskIdx = Len(mergedTaskfile)
    /\ firstOut' = FlatTaskOut
    /\ taskIdx' = 0
    /\ pass' = 2
    /\ UNCHANGED <<pc, fatal, out, taskfileGraph, mergedTaskfile, startTask, hashes, i, stack>>

NextTwice == Next \/ Relist

SpecTwice == Init /\ [][NextTwice]_vars

-----------------------------------------------------------------------------
(* Vocabulary of the properties *)

Range(s) == {s[k] : k \in DOMAIN s}

TreeOut == SelectSeq(out, LAMBDA l : l.sec = "tree")

AvailOut == SelectSeq(out, LAMBDA l : l.sec = "avail")

VertexOut == SelectSeq(out, LAMBDA l : l.kind = "vertex")

IsPrefix(s, t) == Len(s) <= Len(t) /\ SubSeq(t, 1, Len(s)) = s

\* the references of a task: its explicit dependencies, then its task calls
Refs(tf, name) ==
    IF Exists(tf, name)
    THEN Get(tf, name).Deps
            \o SelectSeq([k \in DOMAIN Get(tf, name).Cmds |-> Get(tf, name).Cmds[k].Task],
                         LAMBDA n : n # "")
    ELSE <<>>

RECURSIVE Closure(_, _)
Closure(tf, S) ==
    LET T == S \cup UNION {Range(Refs(tf, n)) : n \in S}
    IN  IF T = S THEN S ELSE Closure(tf, T)

\* a cycle of references can be reached from root
Cyclic(tf, root) ==
    \E n \in Closure(tf, {root}) : n \in Closure(tf, Range(Refs(tf, n)))

\* showDependencyTree was called from main and has returned
TreeReturned == pc = "done" /\ Exists(mergedTaskfile, startTask)

ExpectedLine(tf, name, d) ==
    IF Exists(tf, name)
    THEN [sec |-> "tree", kind |-> "task", num |-> 0, indent |-> d + d,
          text |-> name, desc |-> Get(tf, name).Desc]
    ELSE [sec |-> "tree", kind |-> "notfound", num |-> 0, indent |-> d + d,
          text |-> name, desc |-> ""]

RECURSIVE PreOrder(_, _, _)
\* the pre-order listing of the references reachable from name (acyclic case)
PreOrder(tf, name, d) ==
    <<ExpectedLine(tf, name, d)>>
        \o (IF Exists(tf, name)
            THEN Flatten([k \in DOMAIN Get(tf, name).Deps |->
                            PreOrder(tf, Get(tf, name).Deps[k], d + 1)])
                    \o Flatten([k \in DOMAIN Get(tf, name).Cmds |->
                            IF Get(tf, name).Cmds[k].Task # ""
                            THEN PreOrder(tf, Get(tf, name).Cmds[k].Task, d + 1)
                            ELSE <<>>])
            ELSE <<>>)

ChainDoc ==
    <<[Name |-> "A", Desc |-> "", Deps |-> <<"B">>, Cmds |-> <<>>],
      [Name |-> "B", Desc |-> "", Deps |-> <<"C">>, Cmds |-> <<>>],
      [Name |-> "C", Desc |-> "", Deps |-> <<>>, Cmds |-> <<>>]>>

-----------------------------------------------------------------------------
(* C1: on a document whose references reachable from the start task are     *)
(* acyclic, showDependencyTree(start, 0) prints the pre-order listing: a    *)
(* task at depth d is indented by 2*d spaces and followed by the subtrees   *)
(* of its dependencies, then of its task calls, in declared order; literal  *)
(* commands print nothing. For A dep B, B dep C the output is A, B, C at    *)
(* indents 0, 2, 4.                                                         *)
C1_PreOrderListing ==
    /\ (pc \in {"tree", "done"} /\ Exists(mergedTaskfile, startTask)
            /\ ~Cyclic(mergedTaskfile, startTask))
        => /\ IsPrefix(TreeOut, PreOrder(mergedTaskfile, startTask, 0))
           /\ pc = "done" => TreeOut = PreOrder(mergedTaskfile, startTask, 0)
    /\ (pc = "done" /\ mergedTaskfile = ChainDoc)
        => TreeOut = <<[sec |-> "tree", kind |-> "task", num |-> 0, indent |-> 0, text |-> "A", desc |-> ""],
                       [sec |-> "tree", kind |-> "task", num |-> 0, indent |-> 2, text |-> "B", desc |-> ""],
                       [sec |-> "tree", kind |-> "task", num |-> 0, indent |-> 4, text |-> "C", desc |-> ""]>>

\* a returned rendering of a task with one dependency and one call of another task
C1_Witness ==
    /\ TreeReturned
    /\ Len(TreeOut) = 3
    /\ \E k \in DOMAIN mergedTaskfile :
        /\ mergedTaskfile[k].Name = startTask
        /\ Len(mergedTaskfile[k].Deps) = 1
        /\ Len(mergedTaskfile[k].Cmds) = 1
        /\ mergedTaskfile[k].Cmds[1].Task \notin {"", mergedTaskfile[k].Deps[1]}

\* the chain A dep B, B dep C has been rendered
C1_ChainWitness == pc = "done" /\ mergedTaskfile = ChainDoc /\ Len(TreeOut) = 3

-----------------------------------------------------------------------------
\* the names of the lines rendered directly under line j of a tree listing t
DirectChildren(t, j) ==
    LET ends == {k \in (j + 1)..Len(t) : t[k].indent <= t[j].indent}
        end == IF ends = {} THEN Len(t) + 1
               ELSE CHOOSE k \in ends : \A m \in ends : k <= m
        sub == SelectSeq(SubSeq(t, j + 1, end - 1),
                         LAMBDA l : l.indent = t[j].indent + 2)
    IN  [k \in DOMAIN sub |-> sub[k].text]

\* a call at depth >= 1 for a missing task prints its one line and returns
C2_NotFoundStep ==
    (/\ pc = "tree"
     /\ Len(stack) >= 2
     /\ Top.stage = "enter"
     /\ Top.depth >= 1
     /\ ~Exists(mergedTaskfile, Top.taskName))
    => /\ out' = Append(out, [sec |-> "tree", kind |-> "notfound", num |-> 0,
                              indent |-> Top.depth + Top.depth,
                              text |-> Top.taskName, desc |-> ""])
       /\ stack' = SubSeq(stack, 1, Len(stack) - 1)
       /\ pc' = "tree"
       /\ fatal' = ""

\* every reference of every rendered task has its line directly under it
C2_SiblingsRendered ==
    \A j \in DOMAIN TreeOut :
        DirectChildren(TreeOut, j) =
            (IF TreeOut[j].kind = "task" THEN Refs(mergedTaskfile, TreeOut[j].text) ELSE <<>>)

(* C2: showDependencyTree called at depth d >= 1 with a name that is no key *)
(* of the document prints exactly one "(not found)" line indented by 2*d    *)
(* spaces, makes no recursive call, raises no error, and the caller renders *)
(* every remaining sibling dependency and task call.                        *)
C2_NotFoundLeaf ==
    /\ [][C2_NotFoundStep]_vars
    /\ [](TreeReturned => C2_SiblingsRendered)

\* a missing dependency was rendered at depth >= 1 and a sibling after it
C2_Witness ==
    /\ TreeReturned
    /\ \E j \in DOMAIN TreeOut :
        /\ TreeOut[j].kind = "notfound"
        /\ TreeOut[j].indent >= 2
        /\ j + 1 \in DOMAIN TreeOut
        /\ TreeOut[j + 1].indent = TreeOut[j].indent

-----------------------------------------------------------------------------
(* C3: when the start task is no key of the merged document,                *)
(* showDependencyTree is never invoked; one not-found message is printed,   *)
(* then one "  - name" line per task of the document, each once, in the     *)
(* document's iteration order. When the start task is a key, neither the    *)
(* message nor the listing is printed.                                      *)
C3_MissingStartListsTasks ==
    /\ ~Exists(mergedTaskfile, startTask)
        => TreeOut = <<>> /\ stack = <<>> /\ pc # "tree"
    /\ (pc = "done" /\ ~Exists(mergedTaskfile, startTask))
        => AvailOut =
            <<[sec |-> "avail", kind |-> "startNotFound", num |-> 0, indent |-> 0,
               text |-> startTask, desc |-> ""],
              [sec |-> "avail", kind |-> "availTitle", num |-> 0, indent |-> 0,
               text |-> "", desc |-> ""]>>
            \o [k \in DOMAIN mergedTaskfile |->
                    [sec |-> "avail", kind |-> "name", num |-> 0, indent |-> 2,
                     text |-> mergedTaskfile[k].Name, desc |-> ""]]
    /\ Exists(mergedTaskfile, startTask) => AvailOut = <<>>

\* the start task is missing and two tasks were listed, not in alphabetical order
C3_Witness ==
    /\ pc = "done"
    /\ ~Exists(mergedTaskfile, startTask)
    /\ Len(mergedTaskfile) = 2
    /\ mergedTaskfile[1].Name = "C"
    /\ Len(AvailOut) = 4

-----------------------------------------------------------------------------
RECURSIVE SumSeq(_)
SumSeq(s) == IF s = <<>> THEN 0 ELSE Head(s) + SumSeq(Tail(s))

RECURSIVE Paths(_, _, _)
\* the number of reference paths from r to t (acyclic case); a reference
\* listed twice counts twice
Paths(tf, r, t) ==
    (IF r = t THEN 1 ELSE 0)
        + SumSeq([k \in DOMAIN Refs(tf, r) |-> Paths(tf, Refs(tf, r)[k], t)])

-----------------------------------------------------------------------------
\* a recursive call deepens the stack by one frame, one level deeper
C6_DepthStep ==
    Len(stack') > Len(stack)
        => /\ Len(stack') = Len(stack) + 1
           /\ stack'[Len(stack')].depth = (IF stack = <<>> THEN 0 ELSE Top.depth + 1)
           /\ stack'[Len(stack')].depth = Len(stack)

(* C6: rendering from an existing start task returns if and only if no      *)
(* cycle of references is reachable from it: with a reachable cycle the     *)
(* recursion goes one level deeper on every call, never returns and         *)
(* exhausts the stack; without one it returns after finitely many calls.    *)
C6_TerminatesIffAcyclic ==
    /\ [](TreeReturned => ~Cyclic(mergedTaskfile, startTask))
    /\ [](fatal = "stack" => Cyclic(mergedTaskfile, startTask))
    /\ [][C6_DepthStep]_vars
    /\ (pc = "tree") ~> (pc = "done" \/ fatal = "stack")

\* A depends on B and B on A: the recursion ran until the stack was full
C6_Witness ==
    /\ fatal = "stack"
    /\ Len(stack) = MaxStack
    /\ stack[1].taskName = "A"
    /\ stack[2].taskName = "B"
    /\ stack[3].taskName = "A"
    /\ stack[Len(stack)].depth = Len(stack) - 1

-----------------------------------------------------------------------------
\* the loop over hashes is over
VerticesPrinted == pc \in {"list", "tree", "done"}

VertexPos(v) == CHOOSE k \in DOMAIN VertexOut : VertexOut[k].text = v

\* every vertex is printed once, numbered by its 1-based position
C4_EachVertexOnce ==
    /\ Len(VertexOut) = Cardinality(taskfileGraph.V)
    /\ \A v \in taskfileGraph.V : \E k \in DOMAIN VertexOut : VertexOut[k].text = v
    /\ \A k \in DOMAIN VertexOut : VertexOut[k].num = k

\* C4 as stated: a document that includes another document is never printed
\* before the document it includes
C4_IncluderNeverBeforeIncluded ==
    VerticesPrinted
        => /\ C4_EachVertexOnce
           /\ \A u \in taskfileGraph.V : \A k \in DOMAIN taskfileGraph.Includes[u] :
                ~(VertexPos(u) < VertexPos(taskfileGraph.Includes[u][k]))

(* C4 (amended): for an acyclic inclusion graph the printer visits every    *)
(* vertex exactly once, numbers it by its 1-based position, and prints a    *)
(* document that includes another document before the document it includes. *)
C4_IncluderBeforeIncluded ==
    VerticesPrinted
        => /\ C4_EachVertexOnce
           /\ \A u \in taskfileGraph.V : \A k \in DOMAIN taskfileGraph.Includes[u] :
                VertexPos(u) < VertexPos(taskfileGraph.Includes[u][k])

\* three files, one of them including the two others, have been printed
C4_Witness ==
    /\ VerticesPrinted
    /\ Cardinality(taskfileGraph.V) = 3
    /\ Len(taskfileGraph.Includes["root"]) = 2
    /\ Len(VertexOut) = 3

-----------------------------------------------------------------------------
\* the loop over Tasks.All is over
ListingDone == pc \in {"tree", "done"} \/ (pc = "list" /\ taskIdx = Len(mergedTaskfile))

\* the lines printed under "Commands:" for the k-th task of the flat listing
CommandLinesOf(k) ==
    LET heads == {p \in DOMAIN FlatTaskOut : FlatTaskOut[p].kind = "task"}
        from == CHOOSE p \in heads : Cardinality({q \in heads : q <= p}) = k
        later == {q \in heads : q > from}
        to == IF later = {} THEN Len(FlatTaskOut) + 1
              ELSE CHOOSE q \in later : \A r \in later : q <= r
    IN  SelectSeq(SubSeq(FlatTaskOut, from + 1, to - 1),
                  LAMBDA l : l.kind \in {"cmd", "taskcall"})

(* C5: in the flat listing every command entry of every task is rendered as *)
(* exactly one line, "cmd: <literal>" or "task: <name>", in declared order, *)
(* so a task has as many lines under "Commands:" as command entries.        *)
C5_OneLinePerCommand ==
    (ListingDone /\ pass = 1)
        => \A k \in DOMAIN mergedTaskfile :
            /\ Len(CommandLinesOf(k)) = Len(mergedTaskfile[k].Cmds)
            /\ \A m \in DOMAIN mergedTaskfile[k].Cmds :
                m \in DOMAIN CommandLinesOf(k)
                    => \/ /\ CommandLinesOf(k)[m].kind = "cmd"
                          /\ CommandLinesOf(k)[m].text = mergedTaskfile[k].Cmds[m].Cmd
                       \/ /\ CommandLinesOf(k)[m].kind = "taskcall"
                          /\ CommandLinesOf(k)[m].text = mergedTaskfile[k].Cmds[m].Task

-----------------------------------------------------------------------------
(* C7: each fatal condition ends the run at once: after a failed read or    *)
(* merge nothing of the analysis output is printed, after a failed sort     *)
(* only the headers are (no vertex line, no task entry, no tree line), and  *)
(* no step follows the panic.                                               *)
C7_FatalEndsRun ==
    /\ [](fatal \in {"read", "merge"} => \A k \in DOMAIN out : out[k].sec = "diag")
    /\ [](fatal = "sort"
            => \A k \in DOMAIN out :
                /\ out[k].sec \in {"diag", "hdr"}
                /\ out[k].text # "Complete Dependency Tree")
    /\ [](fatal # "" => pc = "panic")
    /\ [][pc # "panic"]_vars

\* the sort of a cyclic inclusion graph failed after the headers were printed
C7_Witness ==
    /\ pc = "panic"
    /\ fatal = "sort"
    /\ Len(out) = 5
    /\ Len(mergedTaskfile) = 1

-----------------------------------------------------------------------------
\* the phase a printed line belongs to
Rank(l) ==
    CASE l.sec = "diag" -> 0
      [] l.sec = "hdr" /\ l.text # "Complete Dependency Tree" -> 1
      [] l.sec = "incl" -> 2
      [] l.sec = "flat" -> 3
      [] l.sec = "hdr" /\ l.text = "Complete Dependency Tree" -> 4
      [] OTHER -> 5

FlatNames ==
    LET heads == SelectSeq(out, LAMBDA l : l.sec = "flat" /\ l.kind = "task")
    IN  [k \in DOMAIN heads |-> heads[k].text]

(* C8: a successful run goes through its phases in order: the document is   *)
(* read and merged, the whole inclusion order is printed, then every task's *)
(* flat entry, then the start task is looked up and exactly one of the tree *)
(* and the available-task listing is printed.                               *)
C8_PhaseOrder ==
    /\ \A j, k \in DOMAIN out : j < k => Rank(out[j]) <= Rank(out[k])
    /\ (\E k \in DOMAIN out : Rank(out[k]) >= 1) => pc \notin {"read", "merge"}
    /\ (\E k \in DOMAIN out : Rank(out[k]) >= 3)
        => /\ Len(VertexOut) = Cardinality(taskfileGraph.V)
           /\ {VertexOut[k].text : k \in DOMAIN VertexOut} = taskfileGraph.V
    /\ (\E k \in DOMAIN out : Rank(out[k]) >= 4)
        => FlatNames = [k \in DOMAIN mergedTaskfile |-> mergedTaskfile[k].Name]
    /\ pc = "done"
        => /\ fatal = ""
           /\ \E k \in DOMAIN out : Rank(out[k]) = 4
           /\ (TreeOut # <<>>) # (AvailOut # <<>>)
           /\ (TreeOut # <<>>) = Exists(mergedTaskfile, startTask)

\* a run over two files and one task that ended with the tree of the start task
C8_Witness ==
    /\ pc = "done"
    /\ Cardinality(taskfileGraph.V) >= 2
    /\ Len(mergedTaskfile) = 1
    /\ TreeOut # <<>>

-----------------------------------------------------------------------------
\* once read and merged, the graph and the document are never written
C9_ReadOnlyStep ==
    /\ pc # "read" => taskfileGraph' = taskfileGraph
    /\ pc \notin {"read", "merge"} => mergedTaskfile' = mergedTaskfile

(* C9: the flat listing run twice on the same document prints the same      *)
(* lines both times, and neither the listing nor buildTaskDependencyGraph   *)
(* nor showDependencyTree changes the document or the inclusion graph.      *)
C9_ListingIdempotent ==
    /\ []((pass = 2 /\ ListingDone) => FlatTaskOut = firstOut \o firstOut)
    /\ [][C9_ReadOnlyStep]_vars

\* the second run of the listing over a task with commands is over
C9_Witness ==
    /\ pass = 2
    /\ pc = "list"
    /\ taskIdx = Len(mergedTaskfile)
    /\ Len(mergedTaskfile) >= 2
    /\ Len(firstOut) >= 6

====
